---- MODULE Spec2Model ----
(***************************************************************************)
(* A model of leaklocker.py, the water leak detection dashboard: the CSV   *)
(* loader with its process-wide cache, the baseline/anomaly computation,   *)
(* the sidebar filters and the rendering steps of one script run, and the  *)
(* reruns that widget interactions trigger.                                *)
(*                                                                         *)
(* Data representation.  A cell of the timestamp column as read_csv        *)
(* returns it is a record: kind "nan" for an empty cell, kind "str" for a  *)
(* string, described by its separator and numeric fields,                  *)
(*     a<sep>b<sep>c hh:15:00[ mer]                                        *)
(* (sep "" is a string with no date layout at all, such as "not-a-date").  *)
(* flow_rate_lpm cells are whole numbers; a mean is the exact fraction     *)
(* num/den in lowest terms, which is what the comparison with 2 * mean     *)
(* sees for such values.  An empty suburb cell is NA.                      *)
(***************************************************************************)
EXTENDS Integers, Sequences, FiniteSets, TLC

\* Bounds of the model.
MaxRows == 3
MaxBadRows == 1
MaxSessionRows == 1

\* Program constants.
AnomalyFactor == 2
MaxNormalMarkers == 50
SliderMin == 0
SliderMax == 23
DefaultFrom == 6
DefaultTo == 18

NA == "NaN"
All == "All"

RequiredCols ==
    {"timestamp", "suburb", "street_address", "latitude", "longitude",
     "flow_rate_lpm", "liters_used"}

----------------------------------------------------------------------------
\* Timestamp strings and their parsing (load_data.parse_datetime).

Str(sep, a, b, c, hh, mer) ==
    [kind |-> "str", sep |-> sep, a |-> a, b |-> b, c |-> c, hh |-> hh, mer |-> mer]

NaNCell == [kind |-> "nan", sep |-> "", a |-> 0, b |-> 0, c |-> 0, hh |-> 0, mer |-> ""]

NaT == [nat |-> TRUE, month |-> 0, day |-> 0, hour |-> 0]

Timestamp(month, day, hour) == [nat |-> FALSE, month |-> month, day |-> day, hour |-> hour]

\* Days of each month of 2024, the year of every sample.
DaysInMonth(m) == CASE m = 2 -> 29
                    [] m \in {4, 6, 9, 11} -> 30
                    [] OTHER -> 31

\* strptime with '%d/%m/%Y %I:%M:%S %p': TRUE when the string matches.
MatchesDMY12(s) ==
    /\ s.kind = "str"
    /\ s.sep = "/"
    /\ s.b \in 1..12
    /\ s.a \in 1..DaysInMonth(s.b)
    /\ s.c = 2024
    /\ s.hh \in 1..12
    /\ s.mer \in {"AM", "PM"}

\* %I with %p: 12 AM is hour 0, 12 PM is hour 12.
Hour12To24(hh, mer) == (hh % 12) + (IF mer = "PM" THEN 12 ELSE 0)

ParseDMY12(s) == Timestamp(s.b, s.a, Hour12To24(s.hh, s.mer))

\* strptime with '%Y-%m-%d %H:%M:%S'.
MatchesISO24(s) ==
    /\ s.kind = "str"
    /\ s.sep = "-"
    /\ s.a = 2024
    /\ s.b \in 1..12
    /\ s.c \in 1..DaysInMonth(s.b)
    /\ s.hh \in 0..23
    /\ s.mer = ""

ParseISO24(s) == Timestamp(s.b, s.c, s.hh)

\* parse_datetime without its second format.
parse_datetime_one_format(s) ==
    IF s.kind = "nan" THEN NaT
    ELSE IF MatchesDMY12(s) THEN ParseDMY12(s)
    ELSE NaT

\* pd.to_datetime of a missing value returns NaT without raising; a string
\* that does not match the format raises ValueError.
parse_datetime(s) ==
    IF s.kind = "nan" THEN NaT
    ELSE IF MatchesDMY12(s) THEN ParseDMY12(s)
    ELSE IF MatchesISO24(s) THEN ParseISO24(s)
    ELSE NaT

----------------------------------------------------------------------------
\* Data frames.

Row(ts, suburb, flow) == [timestamp |-> ts, suburb |-> suburb, flow_rate_lpm |-> flow]

Frame(cols, dtype, rows) == [cols |-> cols, dtype |-> dtype, rows |-> rows]

NoFrame == Frame({}, "object", <<>>)

\* Series.apply: an empty Series keeps its dtype (object, as read_csv gives
\* a column with no values); otherwise the Series constructor infers
\* datetime64 from the Timestamp/NaT results.
ApplyParse(rows) ==
    [dtype |-> IF Len(rows) = 0 THEN "object" ELSE "datetime64",
     rows |-> [i \in 1..Len(rows) |->
                Row(parse_datetime(rows[i].timestamp), rows[i].suburb, rows[i].flow_rate_lpm)]]

NotNaT(r) == ~r.timestamp.nat

dropna(rows) == SelectSeq(rows, NotNaT)

\* The body of load_data's try block for a readable source with a
\* timestamp column.
LoadFrame(src) ==
    LET applied == ApplyParse(src.rows)
    IN  Frame(src.cols, applied.dtype, dropna(applied.rows))

\* read_csv raises when the file is missing; df['timestamp'] raises
\* KeyError when the column is.  Both are caught by except Exception.
LoadRaises(src) == ~src.exists \/ "timestamp" \notin src.cols

----------------------------------------------------------------------------
\* detect_anomalies.

DaysBefore(m) == CASE m = 1 -> 0 [] m = 2 -> 31 [] m = 3 -> 60 [] m = 4 -> 91
                   [] m = 5 -> 121 [] m = 6 -> 152 [] m = 7 -> 182 [] m = 8 -> 213
                   [] m = 9 -> 244 [] m = 10 -> 274 [] m = 11 -> 305 [] OTHER -> 335

\* Monday = 0; 1 January 2024 is a Monday.
DayOfWeek(ts) == (DaysBefore(ts.month) + ts.day - 1) % 7

Abs(x) == IF x < 0 THEN -x ELSE x

RECURSIVE Gcd(_, _)
Gcd(a, b) == IF b = 0 THEN a ELSE Gcd(b, a % b)

Fraction(num, den) ==
    LET g == Gcd(Abs(num), den)
    IN  [num |-> num \div g, den |-> den \div g]

RECURSIVE SumFlow(_)
SumFlow(rows) ==
    IF rows = <<>> THEN 0 ELSE Head(rows).flow_rate_lpm + SumFlow(Tail(rows))

Enriched(r) ==
    [timestamp |-> r.timestamp, suburb |-> r.suburb, flow_rate_lpm |-> r.flow_rate_lpm,
     hour |-> r.timestamp.hour, day_of_week |-> DayOfWeek(r.timestamp)]

Mean(rows) == Fraction(SumFlow(rows), Len(rows))

\* groupby(['suburb', 'hour'])['flow_rate_lpm'].mean().reset_index():
\* one row per key; rows whose key holds a missing value form no group.
GroupKeys(rows) ==
    {<<rows[i].suburb, rows[i].hour>> : i \in {j \in 1..Len(rows) : rows[j].suburb # NA}}

\* A baseline per suburb, whatever the hour.
GroupMeanBySuburb(rows, k) ==
    Mean(SelectSeq(rows, LAMBDA r : r.suburb = k[1]))

GroupMean(rows, k) ==
    Mean(SelectSeq(rows, LAMBDA r : r.suburb = k[1] /\ r.hour = k[2]))

hourly_avg(rows) ==
    {[suburb |-> k[1], hour |-> k[2], avg_flow_rate |-> GroupMean(rows, k)] :
        k \in GroupKeys(rows)}

Joined(l, g) ==
    [timestamp |-> l.timestamp, suburb |-> l.suburb, flow_rate_lpm |-> l.flow_rate_lpm,
     hour |-> l.hour, day_of_week |-> l.day_of_week, avg_flow_rate |-> g.avg_flow_rate]

\* pd.merge(df, hourly_avg, on=['suburb', 'hour']): an inner join that
\* keeps the order of the left rows; a left row with no matching right row
\* is left out.
RECURSIVE merge(_, _)
merge(left, right) ==
    IF left = <<>> THEN <<>>
    ELSE LET l == Head(left)
             m == {g \in right : g.suburb = l.suburb /\ g.hour = l.hour}
         IN  (IF m = {} THEN <<>> ELSE <<Joined(l, CHOOSE g \in m : TRUE)>>)
                 \o merge(Tail(left), right)

\* flow_rate_lpm >= 2 * avg_flow_rate.
AtLeastBaseline(flow, avg) == flow * avg.den >= AnomalyFactor * avg.num

\* flow_rate_lpm > 2 * avg_flow_rate.
ExceedsBaseline(flow, avg) == flow * avg.den > AnomalyFactor * avg.num

\* The fixed-threshold rule, flow_rate_lpm > 15, in place of the baseline rule.
FlaggedFixedThreshold(r) ==
    [timestamp |-> r.timestamp, suburb |-> r.suburb, flow_rate_lpm |-> r.flow_rate_lpm,
     hour |-> r.hour, day_of_week |-> r.day_of_week, avg_flow_rate |-> r.avg_flow_rate,
     anomaly |-> r.flow_rate_lpm > 15]

Flagged(r) ==
    [timestamp |-> r.timestamp, suburb |-> r.suburb, flow_rate_lpm |-> r.flow_rate_lpm,
     hour |-> r.hour, day_of_week |-> r.day_of_week, avg_flow_rate |-> r.avg_flow_rate,
     anomaly |-> ExceedsBaseline(r.flow_rate_lpm, r.avg_flow_rate)]

detect_anomalies(rows) ==
    LET enriched == [i \in 1..Len(rows) |-> Enriched(rows[i])]
        merged == merge(enriched, hourly_avg(enriched))
    IN  [i \in 1..Len(merged) |-> Flagged(merged[i])]

\* The exception detect_anomalies raises on this frame, "" when none:
\* .dt on a column that is not datetime64 (line 40), a missing group-by
\* or value column (line 42).
DetectRaises(f) ==
    IF f.dtype # "datetime64" THEN "AttributeError"
    ELSE IF "suburb" \notin f.cols \/ "flow_rate_lpm" \notin f.cols THEN "KeyError"
    ELSE ""

----------------------------------------------------------------------------
\* Presentation helpers (sidebar, filters, map).

\* filtered_df['suburb'] == selected_suburb: a missing value equals nothing.
SuburbEquals(a, b) == a # NA /\ a = b

Suburbs(rows) == {rows[i].suburb : i \in 1..Len(rows)}

\* sorted(...) compares the values: a missing value (a float) among
\* strings raises TypeError.
SortRaises(values) == NA \in values /\ values # {NA}

\* between() with both ends of the hour range excluded.
ApplyFiltersExclusive(rows, suburb, time) ==
    LET bySuburb == IF suburb # All
                    THEN SelectSeq(rows, LAMBDA r : SuburbEquals(r.suburb, suburb))
                    ELSE rows
    IN  SelectSeq(bySuburb, LAMBDA r : time[1] < r.hour /\ r.hour < time[2])

\* Lines 70-73.
ApplyFiltersTo(rows, suburb, time) ==
    LET bySuburb == IF suburb # All
                    THEN SelectSeq(rows, LAMBDA r : SuburbEquals(r.suburb, suburb))
                    ELSE rows
    IN  SelectSeq(bySuburb, LAMBDA r : time[1] <= r.hour /\ r.hour <= time[2])

Min(a, b) == IF a < b THEN a ELSE b

IsNormal(r) == ~r.anomaly

\* Line 107: the number of rows asked of sample(), and the rows it draws from.
SampleSize(rows) == Min(MaxNormalMarkers, Len(rows))

NormalRows(rows) == SelectSeq(rows, IsNormal)

\* DataFrame.sample(n) without replacement raises ValueError when n
\* exceeds the number of rows.
SampleRaises(rows) == SampleSize(rows) > Len(NormalRows(rows))

----------------------------------------------------------------------------
\* Inputs.

S_315pm  == Str("/", 1, 6, 2024, 3, "PM")     \* "01/06/2024 03:15:00 PM"
S_1515   == Str("-", 2024, 6, 1, 15, "")      \* "2024-06-01 15:15:00"
S_0715   == Str("-", 2024, 6, 2, 7, "")       \* "2024-06-02 07:15:00"
S_1215am == Str("/", 3, 6, 2024, 12, "AM")    \* "03/06/2024 12:15:00 AM"
S_1315pm == Str("/", 1, 6, 2024, 13, "PM")    \* "01/06/2024 13:15:00 PM"
S_word   == Str("", 0, 0, 0, 0, "")           \* "not-a-date"

SampleRows ==
    { Row(S_315pm, "Ipswich", 4),
      Row(S_1515, "Ipswich", 20),
      Row(S_0715, "Goodna", 0),
      Row(S_1215am, "Goodna", 4),
      Row(S_0715, "Ipswich", -1),
      Row(S_1515, NA, 4),
      Row(S_1315pm, "Ipswich", 20),
      Row(S_word, "Goodna", 4),
      Row(NaNCell, "Ipswich", 4) }

SeqsUpTo(S, n) == UNION {[1..k -> S] : k \in 0..n}

Source(exists, cols, rows) == [exists |-> exists, cols |-> cols, rows |-> rows]

\* A CSV file with every required column.
GoodSources(n) == {Source(TRUE, RequiredCols, rows) : rows \in SeqsUpTo(SampleRows, n)}

\* No file at all, or a file with one required column absent.
BadSources(n) ==
    {Source(FALSE, {}, <<>>)} \cup
    {Source(TRUE, RequiredCols \ {c}, rows) :
        c \in RequiredCols, rows \in SeqsUpTo(SampleRows, n)}

HourRanges == {<<DefaultFrom, DefaultTo>>, <<SliderMin, SliderMax>>, <<16, SliderMax>>}

----------------------------------------------------------------------------
\* The state of the process and of one script run.

VARIABLES
    source,            \* data.csv on disk
    cache,             \* st.cache_data's entry for load_data()
    df,                \* line 53
    processed_df,      \* line 54
    filtered_df,       \* lines 70-73
    suburb_options,    \* the selectbox's options
    selected_suburb,   \* widget state, kept across reruns
    selected_time,
    show_details,
    pc,                \* the script's position
    error,             \* the exception that ended the run
    rendered           \* the elements sent to the page in this run

vars == <<source, cache, df, processed_df, filtered_df, suburb_options,
          selected_suburb, selected_time, show_details, pc, error, rendered>>

NoError == [type |-> "", step |-> ""]

NoCache == [hit |-> FALSE, value |-> NoFrame]

widgets == <<selected_suburb, selected_time, show_details>>

InitRun ==
    /\ cache = NoCache
    /\ df = NoFrame
    /\ processed_df = <<>>
    /\ filtered_df = <<>>
    /\ suburb_options = {}
    /\ selected_suburb = All
    /\ selected_time = <<DefaultFrom, DefaultTo>>
    /\ show_details = FALSE
    /\ pc = "load"
    /\ error = NoError
    /\ rendered = {}

Init ==
    /\ source \in GoodSources(MaxRows) \cup BadSources(MaxBadRows)
    /\ InitRun

\* An exception nobody catches ends the run where it is raised.
Raise(type) ==
    /\ error' = [type |-> type, step |-> pc]
    /\ pc' = "halted"

\* Line 53: load_data() behind st.cache_data.  A cached value is returned
\* without running the function; a failure is reported with st.error and
\* st.stop() ends the run, and nothing is cached.
LoadData ==
    /\ pc = "load"
    /\ IF cache.hit
       THEN /\ df' = cache.value
            /\ pc' = "detect"
            /\ UNCHANGED <<cache, error, rendered>>
       ELSE IF LoadRaises(source)
       THEN /\ rendered' = rendered \cup {"error"}
            /\ error' = [type |-> "Data loading failed", step |-> pc]
            /\ pc' = "halted"
            /\ UNCHANGED <<cache, df>>
       ELSE /\ df' = LoadFrame(source)
            /\ cache' = [hit |-> TRUE, value |-> LoadFrame(source)]
            /\ pc' = "detect"
            /\ UNCHANGED <<error, rendered>>
    /\ UNCHANGED <<source, processed_df, filtered_df, suburb_options, widgets>>

\* Line 54.
DetectAnomalies ==
    /\ pc = "detect"
    /\ IF DetectRaises(df) # ""
       THEN /\ Raise(DetectRaises(df))
            /\ UNCHANGED processed_df
       ELSE /\ processed_df' = detect_anomalies(df.rows)
            /\ pc' = "sidebar"
            /\ UNCHANGED error
    /\ UNCHANGED <<source, cache, df, filtered_df, suburb_options, widgets, rendered>>

\* Lines 57-67.  A selectbox whose options no longer hold the selected
\* value starts again from its first option.
Sidebar ==
    /\ pc = "sidebar"
    /\ IF SortRaises(Suburbs(df.rows))
       THEN /\ Raise("TypeError")
            /\ UNCHANGED <<suburb_options, selected_suburb, rendered>>
       ELSE /\ suburb_options' = {All} \cup Suburbs(df.rows)
            /\ selected_suburb' = IF selected_suburb \in {All} \cup Suburbs(df.rows)
                                  THEN selected_suburb ELSE All
            /\ rendered' = rendered \cup {"sidebar"}
            /\ pc' = "filter"
            /\ UNCHANGED error
    /\ UNCHANGED <<source, cache, df, processed_df, filtered_df, selected_time, show_details>>

\* Lines 70-73.
ApplyFilters ==
    /\ pc = "filter"
    /\ filtered_df' = ApplyFiltersTo(processed_df, selected_suburb, selected_time)
    /\ pc' = "metrics"
    /\ UNCHANGED <<source, cache, df, processed_df, suburb_options, widgets, error, rendered>>

\* Lines 76-79.
Metrics ==
    /\ pc = "metrics"
    /\ IF "liters_used" \notin df.cols
       THEN /\ rendered' = rendered \cup {"metric Avg Flow Rate"}
            /\ Raise("KeyError")
       ELSE /\ rendered' = rendered \cup
                    {"metric Avg Flow Rate", "metric Total Usage", "metric Leak Incidents"}
            /\ pc' = "map"
            /\ UNCHANGED error
    /\ UNCHANGED <<source, cache, df, processed_df, filtered_df, suburb_options, widgets>>

\* Lines 84-119.
Map ==
    /\ pc = "map"
    /\ IF filtered_df = <<>>
       THEN /\ rendered' = rendered \cup {"warning"}
            /\ pc' = "leak charts"
            /\ UNCHANGED error
       ELSE IF "latitude" \notin df.cols \/ "longitude" \notin df.cols
       THEN /\ Raise("KeyError")
            /\ UNCHANGED rendered
       ELSE IF SampleRaises(filtered_df)
       THEN /\ Raise("ValueError")
            /\ UNCHANGED rendered
       ELSE /\ rendered' = rendered \cup {"map"}
            /\ pc' = "leak charts"
            /\ UNCHANGED error
    /\ UNCHANGED <<source, cache, df, processed_df, filtered_df, suburb_options, widgets>>

\* Lines 121-145.
LeakCharts ==
    /\ pc = "leak charts"
    /\ IF "street_address" \notin df.cols
       THEN /\ rendered' = rendered \cup {"chart Leak Frequency by Hour"}
            /\ Raise("KeyError")
       ELSE /\ rendered' = rendered \cup
                    {"chart Leak Frequency by Hour", "chart Top Leak Locations"}
            /\ pc' = "usage chart"
            /\ UNCHANGED error
    /\ UNCHANGED <<source, cache, df, processed_df, filtered_df, suburb_options, widgets>>

\* Lines 147-165.
UsageChart ==
    /\ pc = "usage chart"
    /\ rendered' = rendered \cup {"chart Usage"}
    /\ pc' = "table"
    /\ UNCHANGED <<source, cache, df, processed_df, filtered_df, suburb_options, widgets, error>>

\* Lines 168-177.
Table ==
    /\ pc = "table"
    /\ rendered' = rendered \cup {"checkbox"} \cup (IF show_details THEN {"table"} ELSE {})
    /\ pc' = "done"
    /\ UNCHANGED <<source, cache, df, processed_df, filtered_df, suburb_options, widgets, error>>

\* A widget interaction (or a page refresh) runs the script again from the
\* top with the widgets' new values; only widgets on the page can change.
Rerun ==
    /\ pc \in {"done", "halted"}
    /\ selected_suburb' \in
            IF "sidebar" \in rendered THEN suburb_options ELSE {selected_suburb}
    /\ selected_time' \in
            IF "sidebar" \in rendered THEN HourRanges ELSE {selected_time}
    /\ show_details' \in
            IF "checkbox" \in rendered THEN BOOLEAN ELSE {show_details}
    /\ df' = NoFrame
    /\ processed_df' = <<>>
    /\ filtered_df' = <<>>
    /\ suburb_options' = {}
    /\ error' = NoError
    /\ rendered' = {}
    /\ pc' = "load"
    /\ UNCHANGED <<source, cache>>

\* Somebody replaces, edits or removes data.csv.
ChangeSource ==
    /\ source' \in (GoodSources(MaxSessionRows) \cup BadSources(0)) \ {source}
    /\ UNCHANGED <<cache, df, processed_df, filtered_df, suburb_options, widgets,
                   pc, error, rendered>>

Run ==
    \/ LoadData
    \/ DetectAnomalies
    \/ Sidebar
    \/ ApplyFilters
    \/ Metrics
    \/ Map
    \/ LeakCharts
    \/ UsageChart
    \/ Table
    \/ Rerun

Next == Run

Spec == Init /\ [][Next]_vars

\* A session during which the source file changes.
InitSession ==
    /\ source \in GoodSources(MaxSessionRows) \cup BadSources(0)
    /\ InitRun

NextSession == Run \/ ChangeSource

SpecSession == InitSession /\ [][NextSession]_vars

----------------------------------------------------------------------------
\* Properties.

Order ==
    <<"load", "detect", "sidebar", "filter", "metrics", "map", "leak charts",
      "usage chart", "table", "done">>

Position(step) == CHOOSE i \in 1..Len(Order) : Order[i] = step

\* The step has run in this script run and has not raised.
Completed(step) ==
    Position(IF pc = "halted" THEN error.step ELSE pc) > Position(step)

\* The rows of the loaded dataset in the group of an annotated row.
Members(r) ==
    {j \in 1..Len(df.rows) :
        df.rows[j].suburb = r.suburb /\ df.rows[j].timestamp.hour = r.hour}

RECURSIVE SumOver(_)
SumOver(idx) ==
    IF idx = {} THEN 0
    ELSE LET j == CHOOSE k \in idx : TRUE
         IN  df.rows[j].flow_rate_lpm + SumOver(idx \ {j})

\* avg is the arithmetic mean of the flow over the row's group in df.
IsGroupMean(r) ==
    /\ Members(r) # {}
    /\ r.avg_flow_rate.den > 0
    /\ r.avg_flow_rate.num * Cardinality(Members(r)) = SumOver(Members(r)) * r.avg_flow_rate.den

\* C1: every output row of detect_anomalies carries the arithmetic mean of
\* flow_rate_lpm over exactly the loaded rows of its (suburb, hour) group,
\* so two rows of one group carry the same avg_flow_rate.
C1_BaselineIsGroupMean ==
    Completed("detect") =>
        /\ \A i \in 1..Len(processed_df) : IsGroupMean(processed_df[i])
        /\ \A i, j \in 1..Len(processed_df) :
              (processed_df[i].suburb = processed_df[j].suburb
                  /\ processed_df[i].hour = processed_df[j].hour)
              => processed_df[i].avg_flow_rate = processed_df[j].avg_flow_rate

\* A group of two rows whose mean, 12, is neither of its values, beside a
\* group of the same suburb at another hour.
C1_Witness ==
    /\ Completed("detect")
    /\ \E i, j \in 1..Len(processed_df) :
          /\ processed_df[i].avg_flow_rate = [num |-> 12, den |-> 1]
          /\ processed_df[i].flow_rate_lpm = 4
          /\ processed_df[j].suburb = processed_df[i].suburb
          /\ processed_df[j].hour # processed_df[i].hour

\* C2: a row is flagged iff its flow is strictly greater than twice its
\* avg_flow_rate; a group with readings 4 and 20 has baseline 12 and
\* neither row is flagged.
C2_AnomalyIffAboveTwiceBaseline ==
    Completed("detect") =>
        \A i \in 1..Len(processed_df) :
            LET r == processed_df[i]
            IN  /\ r.anomaly <=>
                      (r.flow_rate_lpm * r.avg_flow_rate.den > 2 * r.avg_flow_rate.num)
                /\ (r.flow_rate_lpm \in {4, 20} /\ r.avg_flow_rate = [num |-> 12, den |-> 1])
                      => ~r.anomaly

C2_Witness ==
    /\ Completed("detect")
    /\ Len(processed_df) = 3
    /\ \E i, j, k \in 1..3 :
          /\ processed_df[i].flow_rate_lpm = 20
          /\ processed_df[i].avg_flow_rate = [num |-> 12, den |-> 1]
          /\ ~processed_df[i].anomaly
          /\ processed_df[j].flow_rate_lpm = 0
          /\ processed_df[j].avg_flow_rate = [num |-> 0, den |-> 1]
          /\ ~processed_df[j].anomaly
          /\ processed_df[k].flow_rate_lpm = 4
          /\ ~processed_df[k].anomaly

\* The strings the two formats accept, and what each denotes.
Accepted(r) == MatchesDMY12(r.timestamp) \/ MatchesISO24(r.timestamp)

Denoted(r) ==
    Row(IF MatchesDMY12(r.timestamp) THEN ParseDMY12(r.timestamp)
        ELSE ParseISO24(r.timestamp),
        r.suburb, r.flow_rate_lpm)

\* C3: load_data returns exactly the source rows whose timestamp parses
\* under the day/month/year 12-hour format or else the year-month-day
\* 24-hour format, in order; no returned row has a null timestamp.
C3_LoadKeepsExactlyParsableRows ==
    Completed("load") =>
        /\ LET kept == SelectSeq(source.rows, Accepted)
           IN  df.rows = [i \in 1..Len(kept) |-> Denoted(kept[i])]
        /\ \A i \in 1..Len(df.rows) : ~df.rows[i].timestamp.nat

\* Both formats kept (and read as the same hour), a row dropped.
C3_Witness ==
    /\ Completed("load")
    /\ Len(source.rows) = 3
    /\ Len(df.rows) = 2
    /\ MatchesDMY12(source.rows[1].timestamp)
    /\ ~Accepted(source.rows[2])
    /\ MatchesISO24(source.rows[3].timestamp)
    /\ df.rows[1].timestamp.hour = 15
    /\ df.rows[2].timestamp.hour = 15

Shown(r) ==
    /\ selected_suburb = All \/ r.suburb = selected_suburb
    /\ selected_time[1] <= r.hour
    /\ r.hour <= selected_time[2]

\* C4: whatever the suburb and hour range selected, and after any number
\* of filter changes, the filtered view is the annotated dataset without
\* the rows of other suburbs or hours; each row shown keeps the
\* avg_flow_rate (the mean over the full dataset) and the flag it has there.
C4_FilterOnlyRemovesRows ==
    Completed("filter") =>
        /\ filtered_df = SelectSeq(processed_df, Shown)
        /\ \A i \in 1..Len(filtered_df) :
              /\ IsGroupMean(filtered_df[i])
              /\ \E j \in 1..Len(processed_df) : processed_df[j] = filtered_df[i]

\* After a change of both filters: some rows shown, some removed.
C4_Witness ==
    /\ Completed("filter")
    /\ selected_suburb # All
    /\ selected_time # <<DefaultFrom, DefaultTo>>
    /\ Len(filtered_df) > 0
    /\ Len(filtered_df) < Len(processed_df)

Outputs ==
    {"metric Avg Flow Rate", "metric Total Usage", "metric Leak Incidents", "map",
     "chart Leak Frequency by Hour", "chart Top Leak Locations", "chart Usage", "table"}

Deficient(src) == ~src.exists \/ src.cols # RequiredCols

\* Rows as the data model describes them: a suburb, a non-negative flow.
WellFormed(rows) ==
    \A i \in 1..Len(rows) : rows[i].suburb # NA /\ rows[i].flow_rate_lpm >= 0

\* C5: when the source is missing or lacks a required column, the run
\* reports the failure and halts before any metric, map, chart or table is
\* rendered.  (Stated for sources whose rows are well formed.)
C5_DeficientSourceRendersNothing ==
    (Deficient(source) /\ WellFormed(source.rows)) =>
        /\ rendered \cap Outputs = {}
        /\ pc # "done"

NothingParses(src) == \A i \in 1..Len(src.rows) : ~Accepted(src.rows[i])

\* C6: on a source with a header and no data rows, or whose every row has
\* an unparsable timestamp, load_data then detect_anomalies raise nothing
\* and yield zero rows.
C6_EmptySourceYieldsEmptyResult ==
    (~Deficient(source) /\ NothingParses(source) /\ pc \notin {"load", "detect"}) =>
        /\ Completed("detect")
        /\ processed_df = <<>>

\* C7: every load_data call returns the parse of the source as it is at
\* the time of the call, never a result cached from an earlier version.
\* (Stated for calls that return rows of a complete file while a complete
\* file is on disk.)
C7_LoadReturnsCurrentSource ==
    [][(pc = "load" /\ pc' = "detect" /\ ~Deficient(source)
            /\ df'.cols = RequiredCols /\ df'.rows # <<>> /\ WellFormed(df'.rows))
        => df' = LoadFrame(source)]_vars

Unannotated(r) == Row(r.timestamp, r.suburb, r.flow_rate_lpm)

\* C8: detect_anomalies returns one row per input row, in input order,
\* with every input field unchanged.  (Stated for files with every column.)
C8_DetectKeepsEveryRow ==
    (Completed("detect") /\ ~Deficient(source)) =>
        [i \in 1..Len(processed_df) |-> Unannotated(processed_df[i])] = df.rows

\* C9: when no flow is negative, a reading alone in its (suburb, hour)
\* group has its own flow as avg_flow_rate and is not flagged.
C9_SingletonNeverFlagged ==
    (Completed("detect") /\ \A j \in 1..Len(df.rows) : df.rows[j].flow_rate_lpm >= 0) =>
        \A i \in 1..Len(processed_df) :
            Cardinality(Members(processed_df[i])) = 1 =>
                /\ processed_df[i].avg_flow_rate =
                        [num |-> processed_df[i].flow_rate_lpm, den |-> 1]
                /\ ~processed_df[i].anomaly

\* A reading alone in its group beside a group of two, with positive flow.
C9_Witness ==
    /\ Completed("detect")
    /\ \A j \in 1..Len(df.rows) : df.rows[j].flow_rate_lpm >= 0
    /\ Len(processed_df) = 3
    /\ \E i, j \in 1..3 :
          /\ Cardinality(Members(processed_df[i])) = 1
          /\ processed_df[i].flow_rate_lpm > 0
          /\ Cardinality(Members(processed_df[j])) = 2

\* C10: with a non-empty filtered view, the map step asks sample() for no
\* more normal markers than there are non-anomalous rows in the view, and
\* completes without error.  (Stated for files with every column and
\* well-formed rows.)
C10_SampleFitsNormalRows ==
    (~Deficient(source) /\ WellFormed(source.rows)) =>
        /\ (pc = "map" /\ filtered_df # <<>>) =>
                SampleSize(filtered_df) <= Len(NormalRows(filtered_df))
        /\ ~(pc = "halted" /\ error = [type |-> "ValueError", step |-> "map"])

====
